---- MODULE Spec2Model ----
(***************************************************************************)
(* SessionManagerCore (src/src/core/manager.core.ts): the single-session   *)
(* manager of WAHA Core.  Every public method is modelled as a frame in    *)
(* `calls`: the invocation runs the method's synchronous prefix up to its  *)
(* first await, and every settlement of an awaited promise runs the        *)
(* continuation up to the next await (JavaScript's run-to-completion).     *)
(***************************************************************************)
EXTENDS Integers, Sequences, FiniteSets, TLC

VARIABLES
  session,   \* this.session: 0 is undefined, else an index into engines
  engines,   \* every engine instance constructed so far
  storage,   \* the auth repository: credentials of 'default' and its call counts
  calls,     \* the frames of the calls made so far, by order of invocation
  request,   \* a start request whose webhooks and proxy start() resolves
  settings,  \* what this.config and helpers.proxy answer for that request
  wired      \* the webhook list and the proxy start() has resolved for it

wiring == <<request, settings, wired>>
vars == <<session, engines, storage, calls, request, settings, wired>>

\* The number of calls the caller makes in a run.
MaxCalls == 3
\* The longest list of webhooks a start request carries.
MaxWebhooks == 2

DEFAULT == "default"
Names == {DEFAULT, "other"}
\* request.config of a start request: absent, or a configuration
Undefined == "undefined"
Configs == {Undefined, "config"}
\* this.config.getDefaultEngineName(), fixed at construction
EngineName == "WEBJS"

OnlyDefaultSessionIsAllowed == "OnlyDefaultSessionIsAllowed"
NotFoundException == "NotFoundException"
TypeError == "TypeError"
NoError == "none"
\* The rejection reason of a collaborator's promise: the error object it threw.
Failure(what, e) == what \o "#" \o ToString(e)

Settled == {"resolved", "rejected"}

\* What a call returned: nothing (void), null, a session reference, or a list of
\* records (a SessionDTO is a one-record list).
Void == [kind |-> "void", eng |-> 0, list |-> <<>>]
Null == [kind |-> "null", eng |-> 0, list |-> <<>>]
Ref(e) == [kind |-> "session", eng |-> e, list |-> <<>>]
List(l) == [kind |-> "list", eng |-> 0, list |-> l]
First(l) == [kind |-> "first", eng |-> 0, list |-> l]

\* The engine's own status changes, observed and not owned by the manager.
EngineStatus(event) ==
  CASE event = "new" -> "STOPPED"
    [] event = "start" -> "STARTING"
    [] event = "started" -> "RUNNING"
    [] event = "stop" -> "STOPPING"
    [] event = "stopped" -> "STOPPED"
    [] OTHER -> "FAILED"

\* A frame.  op/name/all/config are the call; pc is where it is suspended or how
\* it settled; eng is its local `session`; me and engine are getSessions' locals;
\* outs are the outcomes of the promises it awaited so far; seen are the calls
\* that had settled when it was invoked; detached marks the stop logout fires.
Frame(op, name, all, config, seenNow) ==
  [op |-> op, name |-> name, all |-> all, config |-> config, pc |-> "new",
   eng |-> 0, ret |-> Void, err |-> NoError, me |-> "null",
   engine |-> [engine |-> Undefined, info |-> "none"],
   outs |-> <<>>, seen |-> seenNow, detached |-> FALSE]

Resolve(f, ret) == [f EXCEPT !.pc = "resolved", !.ret = ret]
Reject(f, err) == [f EXCEPT !.pc = "rejected", !.err = err]
Await(f, pc) == [f EXCEPT !.pc = pc]
Out(f, ok) == [f EXCEPT !.outs = Append(@, IF ok THEN "resolved" ELSE "rejected")]

SettledCalls == {i \in DOMAIN calls : calls[i].pc \in Settled}
UserCalls == {i \in DOMAIN calls : ~calls[i].detached}
CanCall == Cardinality(UserCalls) < MaxCalls

\* onlyDefault letting every name through
onlyDefault_AnyName(name) == TRUE

\* onlyDefault(name) throws unless the name is 'default': TRUE when it returns
onlyDefault(name) == name = DEFAULT

\* request.config: absent, or with its webhooks (absent, or a list) and its proxy
NoWebhooks == [defined |-> FALSE, list |-> <<>>]
NoConfig == [defined |-> FALSE, webhooks |-> NoWebhooks, proxy |-> Undefined]
NoRequest == [name |-> DEFAULT, config |-> NoConfig]
NoSettings == [webhook |-> Undefined, sessionProxy |-> Undefined]
Unwired == [webhooks |-> <<>>, proxy |-> Undefined, did |-> {}]

\* The manager as constructed with no predefined session to start: a configured
\* startSessions entry is a Start step taken at once, its promise dropped.
Init ==
  /\ session = 0
  /\ engines = <<>>
  /\ storage = [creds |-> FALSE, init |-> 0, clean |-> 0]
  /\ calls = <<>>
  /\ request = NoRequest
  /\ settings = NoSettings
  /\ wired = Unwired

\* ---------------------------------------------------------------- start

\* start() up to `await this.sessionAuthRepository.init(name)`
startFrame(f) ==
  IF ~onlyDefault(f.name) THEN Reject(f, OnlyDefaultSessionIsAllowed)
  ELSE Await(f, "init")

Start(name, config) ==
  /\ CanCall
  /\ LET f == startFrame(Frame("start", name, FALSE, config, SettledCalls)) IN
     /\ calls' = Append(calls, f)
     /\ storage' = IF f.pc = "init" THEN [storage EXCEPT !.init = @ + 1] ELSE storage
  /\ UNCHANGED <<session, engines>>

\* start configuring the webhooks after it has started the engine
newEngineLog_StartFirst == <<"new", "start", "configure">>

\* The events of a new engine instance between init() settling and the await of
\* its start(): constructed, configured by the webhook conductor, start() invoked.
newEngineLog == <<"new", "configure", "start">>

NewEngine(config) ==
  [name |-> DEFAULT, config |-> config, engine |-> EngineName,
   status |-> EngineStatus("start"), log |-> newEngineLog]

\* start constructing and starting the engine without waiting for init()
InitSettles_ConstructAnyway(i, ok) ==
  /\ calls[i].pc = "init"
  /\ LET e == Len(engines) + 1 IN
     /\ storage' = [storage EXCEPT !.creds = ok]
     /\ engines' = Append(engines, NewEngine(calls[i].config))
     /\ session' = e
     /\ calls' = [calls EXCEPT ![i] =
                    IF ok THEN [Await(Out(@, ok), "engineStart") EXCEPT !.eng = e]
                    ELSE Reject(Out(@, ok), Failure("init", 0))]

\* start() from init(name) settling to `await session.start()`: the engine is
\* constructed, registered, configured and started, or init's failure thrown
InitSettles(i, ok) ==
  /\ calls[i].pc = "init"
  /\ IF ok
     THEN LET e == Len(engines) + 1 IN
          /\ storage' = [storage EXCEPT !.creds = TRUE]
          /\ engines' = Append(engines, NewEngine(calls[i].config))
          /\ session' = e
          /\ calls' = [calls EXCEPT ![i] = [Await(Out(@, ok), "engineStart") EXCEPT !.eng = e]]
     ELSE /\ calls' = [calls EXCEPT ![i] = Reject(Out(@, ok), Failure("init", 0))]
          /\ UNCHANGED <<session, engines, storage>>

SessionDTO(e) ==
  [name |-> e.name, status |-> e.status, config |-> e.config,
   me |-> "absent", engine |-> [engine |-> "absent", info |-> "absent"]]

\* start swallowing the failure of the engine's start()
startReturn_Swallow(f, ok, eng) == Resolve(f, List(<<SessionDTO(eng)>>))

\* start() after `await session.start()`
startReturn(f, ok, eng) ==
  IF ok THEN Resolve(f, List(<<SessionDTO(eng)>>))
  ELSE Reject(f, Failure("start", f.eng))

EngineStartSettles(i, ok) ==
  /\ calls[i].pc = "engineStart"
  /\ LET e == calls[i].eng
         st == IF engines[e].status = "STARTING"
               THEN EngineStatus(IF ok THEN "started" ELSE "fault")
               ELSE engines[e].status
     IN
     /\ engines' = [engines EXCEPT ![e].status = st]
     /\ calls' = [calls EXCEPT ![i] = startReturn(Out(@, ok), ok, engines'[e])]
  /\ UNCHANGED <<session, storage>>

\* ----------------------------------------------------------------- stop

\* getSession(name): the live session, or the exception it throws
getSession(name) ==
  IF ~onlyDefault(name) THEN [ok |-> FALSE, err |-> OnlyDefaultSessionIsAllowed, eng |-> 0]
  ELSE IF session = 0 THEN [ok |-> FALSE, err |-> NotFoundException, eng |-> 0]
  ELSE [ok |-> TRUE, err |-> NoError, eng |-> session]

\* stop returning quietly when there is no session
stopFrame_Silent(f) ==
  IF ~onlyDefault(f.name) THEN Reject(f, OnlyDefaultSessionIsAllowed)
  ELSE IF session = 0 THEN Resolve(f, Void)
  ELSE [Await(f, "engineStop") EXCEPT !.eng = session]

\* stop() up to `await session.stop()`
stopFrame(f) ==
  IF ~onlyDefault(f.name) THEN Reject(f, OnlyDefaultSessionIsAllowed)
  ELSE LET s == getSession(f.name) IN
       IF ~s.ok THEN Reject(f, s.err)
       ELSE [Await(f, "engineStop") EXCEPT !.eng = s.eng]

\* The engine whose stop() the frame has just invoked, if it got that far.
StopInvoked(f) ==
  IF f.pc = "engineStop"
  THEN [engines EXCEPT ![f.eng].log = Append(@, "stop"),
                       ![f.eng].status = EngineStatus("stop")]
  ELSE engines

\* stop wiping the credentials when its logout flag is set
Stop_CleanOnLogout(name, logout) ==
  /\ CanCall
  /\ LET f == stopFrame(Frame("stop", name, logout, Undefined, SettledCalls)) IN
     /\ calls' = Append(calls, f)
     /\ engines' = StopInvoked(f)
     /\ storage' = IF logout /\ f.pc = "engineStop"
                   THEN [storage EXCEPT !.creds = FALSE, !.clean = @ + 1]
                   ELSE storage
  /\ UNCHANGED session

\* stop(request) up to `await session.stop()`; request.logout is never read
Stop(name, logout) ==
  /\ CanCall
  /\ LET f == stopFrame(Frame("stop", name, logout, Undefined, SettledCalls)) IN
     /\ calls' = Append(calls, f)
     /\ engines' = StopInvoked(f)
  /\ UNCHANGED <<session, storage>>

\* stop forgetting to clear the reference
sessionAfterStop_Keep(ok) == session

\* this.session after `await session.stop()` settled
sessionAfterStop(ok) == IF ok THEN 0 ELSE session

\* stop() after `await session.stop()`
stopReturn(f, ok) ==
  IF ok THEN Resolve(f, Void) ELSE Reject(f, Failure("stop", f.eng))

EngineStopSettles(i, ok) ==
  /\ calls[i].pc = "engineStop"
  /\ LET e == calls[i].eng IN
     engines' = [engines EXCEPT ![e].status = EngineStatus(IF ok THEN "stopped" ELSE "fault")]
  /\ session' = sessionAfterStop(ok)
  /\ calls' = [calls EXCEPT ![i] = stopReturn(Out(@, ok), ok)]
  /\ UNCHANGED storage

\* the shutdown hook stopping without looking whether there is a session
shutdownFrame_NoGuard(f) == stopFrame(f)

\* onApplicationShutdown() up to the await of this.stop({name: DEFAULT,
\* logout: false}), whose outcome is its own
shutdownFrame(f) ==
  IF session = 0 THEN Resolve(f, Void)
  ELSE stopFrame(f)

Shutdown ==
  /\ CanCall
  /\ LET f == shutdownFrame(Frame("shutdown", DEFAULT, FALSE, Undefined, SettledCalls)) IN
     /\ calls' = Append(calls, f)
     /\ engines' = StopInvoked(f)
  /\ UNCHANGED <<session, storage>>

\* --------------------------------------------------------------- logout

\* logout awaiting the stop it calls, so that the stop's failure is its own
logoutFrame_AwaitStop(f, stop) ==
  IF ~onlyDefault(f.name) THEN Reject(f, OnlyDefaultSessionIsAllowed)
  ELSE IF stop.pc = "rejected" THEN Reject(f, stop.err)
  ELSE Await(f, "clean")

\* logout() up to `await this.sessionAuthRepository.clean(name)`, given the frame
\* of the stop it has fired: that promise is only given a then and a catch.
logoutFrame(f, stop) ==
  IF ~onlyDefault(f.name) THEN Reject(f, OnlyDefaultSessionIsAllowed)
  ELSE Await(f, "clean")

Logout(name) ==
  /\ CanCall
  /\ LET d == [stopFrame(Frame("stop", name, FALSE, Undefined, SettledCalls))
                 EXCEPT !.detached = TRUE]
         f == logoutFrame(Frame("logout", name, FALSE, Undefined, SettledCalls), d)
     IN
     IF ~onlyDefault(name)
     THEN /\ calls' = Append(calls, f)
          /\ UNCHANGED <<engines, storage>>
     ELSE /\ calls' = calls \o <<f, d>>
          /\ engines' = StopInvoked(d)
          /\ storage' = IF f.pc = "clean" THEN [storage EXCEPT !.clean = @ + 1] ELSE storage
  /\ UNCHANGED session

\* logout joining the stop it fired before it returns
logoutReturn_JoinStop(f, ok) ==
  IF \E j \in DOMAIN calls : calls[j].detached /\ calls[j].pc = "engineStop"
  THEN Await(f, "stop")
  ELSE IF ok THEN Resolve(f, Void) ELSE Reject(f, Failure("clean", 0))

\* logout() after `await this.sessionAuthRepository.clean(name)`
logoutReturn(f, ok) ==
  IF ok THEN Resolve(f, Void) ELSE Reject(f, Failure("clean", 0))

CleanSettles(i, ok) ==
  /\ calls[i].pc = "clean"
  /\ storage' = IF ok THEN [storage EXCEPT !.creds = FALSE] ELSE storage
  /\ calls' = [calls EXCEPT ![i] = logoutReturn(Out(@, ok), ok)]
  /\ UNCHANGED <<session, engines>>

\* -------------------------------------------------------------- queries

GetSession(name) ==
  /\ CanCall
  /\ LET f == Frame("getSession", name, FALSE, Undefined, SettledCalls)
         s == getSession(name)
     IN calls' = Append(calls, IF s.ok THEN Resolve(f, Ref(s.eng)) ELSE Reject(f, s.err))
  /\ UNCHANGED <<session, engines, storage>>

\* The record getSessions(true) returns when there is no session.
StoppedInfo ==
  [name |-> DEFAULT, status |-> "STOPPED", config |-> Undefined, me |-> "null",
   engine |-> [engine |-> "absent", info |-> "absent"]]

\* What getSessions resolves with; getSessionInfo takes sessions[0] of it.
sessionsReturn(f, list) ==
  IF f.op = "getSessionInfo" THEN Resolve(f, First(list)) ELSE Resolve(f, List(list))

\* getSessions returning the fixed slot whatever `all` is
getSessionsFrame_AlwaysSlot(f) ==
  IF session = 0 THEN sessionsReturn(f, <<StoppedInfo>>)
  ELSE [Await(f, "meInfo") EXCEPT !.eng = session]

\* getSessions(all) up to `await this.session.getSessionMeInfo()`
getSessionsFrame(f) ==
  IF session = 0
  THEN IF ~f.all THEN sessionsReturn(f, <<>>) ELSE sessionsReturn(f, <<StoppedInfo>>)
  ELSE [Await(f, "meInfo") EXCEPT !.eng = session]

GetSessions(all) ==
  /\ CanCall
  /\ calls' = Append(calls, getSessionsFrame(Frame("getSessions", DEFAULT, all, Undefined, SettledCalls)))
  /\ UNCHANGED <<session, engines, storage>>

\* getSessionInfo(name): null for another name, else getSessions(true)
getSessionInfoFrame(f) ==
  IF f.name # DEFAULT THEN Resolve(f, Null) ELSE getSessionsFrame(f)

GetSessionInfo(name) ==
  /\ CanCall
  /\ calls' = Append(calls, getSessionInfoFrame(Frame("getSessionInfo", name, TRUE, Undefined, SettledCalls)))
  /\ UNCHANGED <<session, engines, storage>>

\* getSessions without the catch on getSessionMeInfo()
meAfter_Propagate(f, ok) ==
  IF ok THEN Await([f EXCEPT !.me = "identity"], "engineInfo")
  ELSE Reject(f, Failure("me", f.eng))

\* `me` after `await this.session.getSessionMeInfo().catch((err) => null)`
meAfter(f, ok) ==
  IF ok THEN Await([f EXCEPT !.me = "identity"], "engineInfo")
  ELSE Await([f EXCEPT !.me = "null"], "engineInfo")

\* then `engine: this.session?.engine` and the call of this.session?.getEngineInfo():
\* the frame's eng becomes the session asked, 0 when the chain short-circuits
MeInfoSettles(i, ok) ==
  /\ calls[i].pc = "meInfo"
  /\ LET f == meAfter(Out(calls[i], ok), ok) IN
     calls' = [calls EXCEPT ![i] =
       IF f.pc # "engineInfo" THEN f
       ELSE [f EXCEPT !.eng = session,
                      !.engine.engine = IF session = 0 THEN Undefined
                                        ELSE engines[session].engine]]
  /\ UNCHANGED <<session, engines, storage>>

\* the spread `...(await this.session?.getEngineInfo().catch((err) => ({})))`
engineAfter(f, ok) ==
  IF f.eng # 0 /\ ok THEN Await([f EXCEPT !.engine.info = "info"], "return")
  ELSE Await(f, "return")

SessionInfo(f, e) ==
  [name |-> e.name, status |-> e.status, config |-> e.config, me |-> f.me,
   engine |-> f.engine]

\* the returned list reads this.session again
EngineInfoSettles(i, ok) ==
  /\ calls[i].pc = "engineInfo"
  /\ calls[i].eng = 0 => ok
  /\ LET f == engineAfter(Out(calls[i], ok), ok) IN
     calls' = [calls EXCEPT ![i] =
       IF f.pc # "return" THEN f
       ELSE IF session = 0 THEN Reject(f, TypeError)
       ELSE sessionsReturn(f, <<SessionInfo(f, engines[session])>>)]
  /\ UNCHANGED <<session, engines, storage>>

\* ----------------------------------------------------------------- Next

Next ==
  \/ \E n \in Names, c \in Configs : Start(n, c) /\ UNCHANGED wiring
  \/ \E n \in Names, l \in BOOLEAN : Stop(n, l) /\ UNCHANGED wiring
  \/ Shutdown /\ UNCHANGED wiring
  \/ \E n \in Names : Logout(n) /\ UNCHANGED wiring
  \/ \E n \in Names : GetSession(n) /\ UNCHANGED wiring
  \/ \E a \in BOOLEAN : GetSessions(a) /\ UNCHANGED wiring
  \/ \E n \in Names : GetSessionInfo(n) /\ UNCHANGED wiring
  \/ \E i \in DOMAIN calls, ok \in BOOLEAN : InitSettles(i, ok) /\ UNCHANGED wiring
  \/ \E i \in DOMAIN calls, ok \in BOOLEAN : EngineStartSettles(i, ok) /\ UNCHANGED wiring
  \/ \E i \in DOMAIN calls, ok \in BOOLEAN : EngineStopSettles(i, ok) /\ UNCHANGED wiring
  \/ \E i \in DOMAIN calls, ok \in BOOLEAN : CleanSettles(i, ok) /\ UNCHANGED wiring
  \/ \E i \in DOMAIN calls, ok \in BOOLEAN : MeInfoSettles(i, ok) /\ UNCHANGED wiring
  \/ \E i \in DOMAIN calls, ok \in BOOLEAN : EngineInfoSettles(i, ok) /\ UNCHANGED wiring

Spec == Init /\ [][Next]_vars

\* The auth repository settles every clean() it was asked; nothing is assumed
\* of the engines, whose stop() may stay pending for ever.
SpecCleanSettles ==
  Spec /\ WF_vars(\E i \in DOMAIN calls, ok \in BOOLEAN : CleanSettles(i, ok) /\ UNCHANGED wiring)

\* --------------------------------------------- webhooks and proxy of start()

Hooks == {"A", "B", "G"}
Lists(n) == UNION {[1..k -> Hooks] : k \in 0..n}
RequestConfigs ==
  {NoConfig} \cup
  [defined : {TRUE},
   webhooks : {NoWebhooks} \cup [defined : {TRUE}, list : Lists(MaxWebhooks)],
   proxy : {Undefined, "P1"}]

\* getWebhooks putting the global webhook first
getWebhooks_GlobalFirst(req) ==
  (IF settings.webhook # Undefined THEN <<settings.webhook>> ELSE <<>>)
  \o (IF req.config.defined /\ req.config.webhooks.defined
      THEN req.config.webhooks.list ELSE <<>>)

\* getWebhooks(request): [] with request.config?.webhooks concatenated when there
\* are any, then this.config.getWebhookConfig() pushed when there is one
getWebhooks(req) ==
  LET webhooks0 == <<>>
      webhooks1 == IF req.config.defined /\ req.config.webhooks.defined
                   THEN webhooks0 \o req.config.webhooks.list ELSE webhooks0
  IN IF settings.webhook # Undefined THEN Append(webhooks1, settings.webhook)
     ELSE webhooks1

\* getProxyConfig looking at the active session before the request
getProxyConfig_SessionFirst(req) ==
  IF session # 0 /\ settings.sessionProxy # Undefined THEN settings.sessionProxy
  ELSE IF req.config.defined THEN req.config.proxy
  ELSE Undefined

\* getProxyConfig(request): request.config?.proxy, else undefined without a
\* session, else what helpers.proxy's getProxyConfig answers for this.session
getProxyConfig(req) ==
  IF req.config.defined /\ req.config.proxy # Undefined THEN req.config.proxy
  ELSE IF session = 0 THEN Undefined
  ELSE settings.sessionProxy

\* start() resolving the proxy of its request (line 119)
ResolveProxy ==
  /\ "proxy" \notin wired.did
  /\ wired' = [wired EXCEPT !.proxy = getProxyConfig(request), !.did = @ \cup {"proxy"}]
  /\ UNCHANGED <<session, engines, storage, calls, request, settings>>

\* start() merging the webhooks it passes to webhook.configure (lines 134-135)
ConfigureWebhooks ==
  /\ "webhooks" \notin wired.did
  /\ wired' = [wired EXCEPT !.webhooks = getWebhooks(request), !.did = @ \cup {"webhooks"}]
  /\ UNCHANGED <<session, engines, storage, calls, request, settings>>

\* A start request for 'default' and the configuration it meets, with a session
\* active or not.
InitWiring ==
  /\ session \in {0, 1}
  /\ engines = IF session = 0 THEN <<>> ELSE <<NewEngine(Undefined)>>
  /\ storage = [creds |-> session # 0, init |-> session, clean |-> 0]
  /\ calls = <<>>
  /\ request \in [name : {DEFAULT}, config : RequestConfigs]
  /\ settings \in [webhook : {Undefined, "G"}, sessionProxy : {Undefined, "P2"}]
  /\ wired = Unwired

NextWiring ==
  \/ ResolveProxy
  \/ ConfigureWebhooks

SpecWiring == InitWiring /\ [][NextWiring]_vars


\* ------------------------------------------------------------- the claims

IsNew(i) == i = Len(calls) + 1 /\ i \in DOMAIN calls'
NamedOps == {"start", "stop", "logout", "getSession", "getSessionInfo"}
Untouched == session' = session /\ storage' = storage /\ engines' = engines

\* C1 (as stated): every operation that takes a name, called with a name other
\* than 'default', fails with OnlyDefaultSessionIsAllowed and leaves the session
\* reference, the auth storage and the engines as they were.
C1_EveryNamedOperationRejects ==
  [][\A i \in DOMAIN calls' :
       (IsNew(i) /\ calls'[i].name # DEFAULT /\ calls'[i].op \in NamedOps)
       => /\ calls'[i].pc = "rejected"
          /\ calls'[i].err = OnlyDefaultSessionIsAllowed
          /\ Untouched]_vars

\* C1 (amended): with a name other than 'default', start, stop, logout and
\* getSession fail with OnlyDefaultSessionIsAllowed, getSessionInfo resolves with
\* null, and none of them changes the session reference, the auth storage or an
\* engine.
C1_OtherNameRejectedOrNull ==
  [][\A i \in DOMAIN calls' :
       (IsNew(i) /\ calls'[i].name # DEFAULT /\ calls'[i].op \in NamedOps)
       => /\ Len(calls') = Len(calls) + 1
          /\ Untouched
          /\ IF calls'[i].op = "getSessionInfo"
             THEN calls'[i].pc = "resolved" /\ calls'[i].ret = Null
             ELSE calls'[i].pc = "rejected" /\ calls'[i].err = OnlyDefaultSessionIsAllowed]_vars

\* C1's case: with a session active and credentials stored, logout and
\* getSessionInfo have been called with another name.
C1_Witness ==
  /\ session # 0 /\ storage.creds
  /\ \E i, j \in DOMAIN calls :
       /\ calls[i].op = "logout" /\ calls[i].name # DEFAULT /\ calls[i].pc = "rejected"
       /\ calls[j].op = "getSessionInfo" /\ calls[j].name # DEFAULT /\ calls[j].ret = Null

IsStop(i) == calls[i].op = "stop"
EngineStopSettled(i) == IsStop(i) /\ calls[i].outs # <<>>
\* The call i was made by a caller that awaits each call before the next one.
\* (The stop fired by a logout is the frame after the logout's.)
Serial(i) ==
  \A k \in 1..(i - 1) : k \in calls[i].seen \/ (calls[i].detached /\ k = i - 1)

\* C2: once the engine's stop() has settled for a stop or logout call, resolved
\* or rejected, the manager no longer holds the session that call stopped.
\* (Stated for the calls of a caller that awaits each call before the next.)
C2_ClearedOnceEngineStopSettled ==
  \A i \in DOMAIN calls :
    (EngineStopSettled(i) /\ Serial(i)) => session # calls[i].eng

IsLogout(i) == calls[i].op = "logout" /\ calls[i].name = DEFAULT

\* C3: logout('default') always calls clean, and settles as that call settles:
\* pending while it is pending, resolved when it resolved, rejected with its
\* failure when it rejected, whatever became of the stop it fired.
C3_LogoutSettlesAsClean ==
  /\ storage.clean = Cardinality({i \in DOMAIN calls : IsLogout(i)})
  /\ \A i \in DOMAIN calls : IsLogout(i) =>
       /\ i + 1 \in DOMAIN calls /\ IsStop(i + 1) /\ calls[i + 1].detached
       /\ calls[i].pc = "clean" <=> calls[i].outs = <<>>
       /\ calls[i].pc = "resolved" <=> calls[i].outs = <<"resolved">>
       /\ calls[i].pc = "rejected" <=>
            (calls[i].outs = <<"rejected">> /\ calls[i].err = Failure("clean", 0))

\* C3's case: one logout resolved though its stop failed with NotFound, another
\* though the engine's stop rejected.
C3_Witness ==
  \E i, j \in DOMAIN calls :
    /\ IsLogout(i) /\ calls[i].pc = "resolved"
    /\ calls[i + 1].pc = "rejected" /\ calls[i + 1].err = NotFoundException
    /\ IsLogout(j) /\ calls[j].pc = "resolved"
    /\ calls[j + 1].pc = "rejected" /\ calls[j + 1].outs = <<"rejected">>

AllSettled == \A i \in DOMAIN calls : calls[i].pc \in Settled
\* s is a start that resolved, called after the logout l had resolved, by a
\* caller that awaits each call before the next and calls nothing else after l.
StartedAfterLogout(l, s) ==
  /\ IsLogout(l) /\ calls[l].pc = "resolved" /\ Serial(l)
  /\ calls[s].op = "start" /\ calls[s].pc = "resolved" /\ l \in calls[s].seen
  /\ \A k \in DOMAIN calls : k > l + 1 => k = s

\* C4: after a logout that returned, a start that completes leaves the manager
\* holding the new session once all the background work has finished:
\* getSession('default') returns it.
C4_StartAfterLogoutKeepsSession ==
  \A l, s \in DOMAIN calls :
    (StartedAfterLogout(l, s) /\ AllSettled)
    => /\ session = calls[s].eng
       /\ getSession(DEFAULT) = [ok |-> TRUE, err |-> NoError, eng |-> calls[s].eng]

\* The step settles frame i, suspended at pc, with the awaited promise's outcome.
Settles(i, pc, out) ==
  /\ i \in DOMAIN calls /\ calls[i].pc = pc
  /\ calls'[i].outs = Append(calls[i].outs, out)
\* getSessions(false) and getSession('default') as they would answer now
NoSessionNow ==
  /\ session = 0
  /\ getSessionsFrame(Frame("getSessions", DEFAULT, FALSE, Undefined, {})).ret = List(<<>>)
  /\ getSession(DEFAULT) = [ok |-> FALSE, err |-> NotFoundException, eng |-> 0]
\* i is a stop called right after the start before it had completed.
StopRightAfterStart(i) ==
  /\ IsStop(i) /\ ~calls[i].detached /\ i > 1
  /\ calls[i - 1].op = "start" /\ calls[i - 1].pc = "resolved"
  /\ (i - 1) \in calls[i].seen

\* C5: from any state, when a stop('default') called right after a start that
\* completed itself completes, the manager holds no session: getSessions(false)
\* is empty and getSession('default') fails with NotFound.
C5_StartThenStopLeavesNoSession ==
  [][\A i \in DOMAIN calls :
       (StopRightAfterStart(i) /\ Settles(i, "engineStop", "resolved"))
       => calls'[i].pc = "resolved" /\ NoSessionNow']_vars

\* C5's case: the start and the stop after it have completed, in a run where
\* another call came first.
C5_Witness ==
  \E i \in DOMAIN calls :
    StopRightAfterStart(i) /\ calls[i].pc = "resolved" /\ i > 2 /\ NoSessionNow

Statuses == {"STOPPED", "STARTING", "RUNNING", "STOPPING", "FAILED"}
IsSessionsQuery(i) ==
  calls[i].op \in {"getSessions", "getSessionInfo"} /\ calls[i].name = DEFAULT
\* The record a getSessions/getSessionInfo frame returned.
Returned(f) == f.ret.list[1]
\* A well-formed record of an active session, degraded where a query rejected.
DegradedInfo(f) ==
  /\ f.pc = "resolved" /\ Len(f.ret.list) = 1
  /\ f.ret.kind = (IF f.op = "getSessionInfo" THEN "first" ELSE "list")
  /\ Returned(f).name = DEFAULT /\ Returned(f).status \in Statuses
  /\ Returned(f) # StoppedInfo
  /\ f.outs[1] = "rejected" => Returned(f).me = "null"
  /\ f.outs[2] = "rejected" =>
       Returned(f).engine = [engine |-> EngineName, info |-> "none"]

\* C6: with a session active, getSessions(all) and getSessionInfo('default') do
\* not fail because getSessionMeInfo() or getEngineInfo() rejected: whatever the
\* two outcomes, no frame is rejected at the first, and with the session still
\* held at the second the result is one record with the name, a status, me null
\* if the first rejected and only the engine identifier if the second rejected,
\* which differs from the record of the empty slot.
C6_QueriesDegrade ==
  [][\A i \in DOMAIN calls : IsSessionsQuery(i) =>
       /\ calls[i].pc = "meInfo" => calls'[i].pc # "rejected"
       /\ (calls[i].pc = "engineInfo" /\ calls'[i].pc # "engineInfo" /\ session # 0)
          => DegradedInfo(calls'[i])]_vars

\* C6's case: both queries rejected and the record came back degraded.
C6_Witness ==
  \E i \in DOMAIN calls :
    /\ IsSessionsQuery(i) /\ calls[i].op = "getSessionInfo"
    /\ calls[i].outs = <<"rejected", "rejected">> /\ DegradedInfo(calls[i])

Count(log, ev) == Cardinality({p \in DOMAIN log : log[p] = ev})
Before(log, a, b) ==
  \A q \in DOMAIN log : log[q] = b => \E p \in 1..(q - 1) : log[p] = a

\* C7: every engine instance start() constructed has been configured by the
\* webhook conductor exactly once, after its construction and before its
\* start() was invoked; every start() that got past init() has its own instance.
C7_ConfiguredOnceBeforeStart ==
  /\ \A e \in DOMAIN engines :
       /\ Count(engines[e].log, "configure") = 1
       /\ Count(engines[e].log, "new") = 1
       /\ Count(engines[e].log, "start") = 1
       /\ Before(engines[e].log, "new", "configure")
       /\ Before(engines[e].log, "configure", "start")
  /\ \A i \in DOMAIN calls :
       (calls[i].op = "start" /\ calls[i].outs # <<>> /\ calls[i].outs[1] = "resolved")
       => /\ calls[i].eng \in DOMAIN engines
          /\ \A j \in DOMAIN calls :
               (calls[j].op = "start" /\ calls[j].eng = calls[i].eng) => j = i

\* C7's case: two start() calls have each constructed and started an engine.
C7_Witness ==
  /\ Len(engines) = 2
  /\ \E i \in DOMAIN calls : calls[i].op = "start" /\ calls[i].eng = 2 /\ calls[i].pc = "resolved"

\* C8: when the engine's start() rejects, start() rejects with that failure, the
\* engine's start() has been invoked once, and the session reference is not
\* touched, so that a stop('default') finds the session if it is still the
\* held one; when the engine's stop() rejects, stop() rejects with that failure.
C8_EngineFailurePropagates ==
  [][\A i \in DOMAIN calls :
       /\ Settles(i, "engineStart", "rejected") =>
            /\ calls'[i].pc = "rejected"
            /\ calls'[i].err = Failure("start", calls[i].eng)
            /\ Count(engines'[calls[i].eng].log, "start") = 1
            /\ session' = session /\ Len(calls') = Len(calls)
            /\ session = calls[i].eng =>
                 /\ stopFrame(Frame("stop", DEFAULT, FALSE, Undefined, {}))'.pc = "engineStop"
                 /\ stopFrame(Frame("stop", DEFAULT, FALSE, Undefined, {}))'.eng = calls[i].eng
       /\ Settles(i, "engineStop", "rejected") =>
            /\ calls'[i].pc = "rejected"
            /\ calls'[i].err = Failure("stop", calls[i].eng)]_vars

\* C8's case: the engine's start() rejected, start() rejected, and the stop()
\* called after it found the session and cleared it.
C8_Witness ==
  \E i \in DOMAIN calls :
    /\ calls[i].op = "start" /\ calls[i].outs = <<"resolved", "rejected">>
    /\ calls[i].pc = "rejected"
    /\ i + 1 \in DOMAIN calls /\ IsStop(i + 1) /\ i \in calls[i + 1].seen
    /\ calls[i + 1].eng = calls[i].eng /\ calls[i + 1].pc = "resolved"
    /\ session = 0

\* C9: stop('default') called with no session fails with NotFound, invokes no
\* engine's stop() and leaves the session reference and the auth storage alone.
C9_StopWithoutSessionNotFound ==
  [][\A i \in DOMAIN calls' :
       (IsNew(i) /\ calls'[i].op = "stop" /\ ~calls'[i].detached
        /\ calls'[i].name = DEFAULT /\ session = 0)
       => /\ calls'[i].pc = "rejected" /\ calls'[i].err = NotFoundException
          /\ calls'[i].eng = 0
          /\ Untouched]_vars

\* C9's case: a stop failed with NotFound after an earlier stop had cleared the
\* session, the credentials still stored.
C9_Witness ==
  \E i \in DOMAIN calls :
    /\ IsStop(i) /\ ~calls[i].detached /\ calls[i].err = NotFoundException
    /\ Len(engines) = 1 /\ session = 0 /\ storage.creds

\* C10: with no session, getSessions(false) resolves at once with the empty
\* list and getSessions(true) with one record: 'default', STOPPED, no config,
\* me null; no engine is asked and nothing changes.
C10_NoSessionListing ==
  [][\A i \in DOMAIN calls' :
       (IsNew(i) /\ calls'[i].op = "getSessions" /\ session = 0)
       => /\ calls'[i].pc = "resolved" /\ calls'[i].outs = <<>>
          /\ calls'[i].ret.kind = "list"
          /\ Untouched
          /\ IF calls'[i].all
             THEN /\ Len(calls'[i].ret.list) = 1
                  /\ calls'[i].ret.list[1].name = "default"
                  /\ calls'[i].ret.list[1].status = "STOPPED"
                  /\ calls'[i].ret.list[1].config = Undefined
                  /\ calls'[i].ret.list[1].me = "null"
             ELSE calls'[i].ret.list = <<>>]_vars

\* C10's case: both listings were asked with no session held.
C10_Witness ==
  \E i, j \in DOMAIN calls :
    /\ calls[i].op = "getSessions" /\ calls[i].all /\ calls[i].outs = <<>>
    /\ calls[j].op = "getSessions" /\ ~calls[j].all /\ calls[j].outs = <<>>
    /\ calls[i].pc = "resolved" /\ calls[j].pc = "resolved" /\ session = 0

\* The per-session webhooks of the request, in their order.
PerSession ==
  IF request.config.defined /\ request.config.webhooks.defined
  THEN request.config.webhooks.list ELSE <<>>
HasGlobal == settings.webhook # Undefined

\* C11: the list passed to the conductor is the request's webhooks in their
\* order, followed by the global webhook when one is configured, nothing
\* dropped, merged or moved.
C11_WebhooksConcatenated ==
  "webhooks" \in wired.did =>
    /\ Len(wired.webhooks) = Len(PerSession) + (IF HasGlobal THEN 1 ELSE 0)
    /\ \A k \in 1..Len(PerSession) : wired.webhooks[k] = PerSession[k]
    /\ HasGlobal => wired.webhooks[Len(wired.webhooks)] = settings.webhook
    /\ (PerSession = <<"A", "B">> /\ HasGlobal) => wired.webhooks = <<"A", "B", "G">>
    /\ (PerSession = <<>> /\ ~HasGlobal) => wired.webhooks = <<>>

\* C11's case: per-session [G, G] and the global G have given [G, G, G].
C11_Witness ==
  /\ "webhooks" \in wired.did
  /\ PerSession = <<"G", "G">> /\ HasGlobal
  /\ wired.webhooks = <<"G", "G", "G">>

HasRequestProxy == request.config.defined /\ request.config.proxy # Undefined

AtClean(i) == i \in DOMAIN calls /\ IsLogout(i) /\ calls[i].pc = "clean"
HasReturned(i) == i \in DOMAIN calls /\ calls[i].pc \in Settled

\* C13: logout waits for clean only: once clean has settled logout has
\* returned, whatever the stop it fired is doing, and a logout waiting for
\* clean returns even if the engine's stop() never settles.
C13_LogoutWaitsForCleanOnly ==
  /\ [](\A i \in DOMAIN calls : (IsLogout(i) /\ calls[i].outs # <<>>) => HasReturned(i))
  /\ \A i \in 1..(2 * MaxCalls) : AtClean(i) ~> HasReturned(i)

\* C13's case: logout has returned and the engine's stop() it triggered is
\* still pending.
C13_Witness ==
  \E i \in DOMAIN calls :
    /\ IsLogout(i) /\ calls[i].pc = "resolved"
    /\ calls[i + 1].detached /\ calls[i + 1].pc = "engineStop"
    /\ session = calls[i + 1].eng

IsShutdown(i) == calls[i].op = "shutdown"

\* C14: the shutdown hook, with a session active, runs stop with logout=false:
\* it invokes the engine's stop() once, clears the session reference when it
\* completes and never touches the stored credentials; with no session it
\* returns at once, changing nothing.
C14_ShutdownStopsWithoutLogout ==
  [][\A i \in DOMAIN calls' :
       /\ (IsNew(i) /\ calls'[i].op = "shutdown" /\ session = 0)
          => calls'[i].pc = "resolved" /\ Untouched
       /\ (IsNew(i) /\ calls'[i].op = "shutdown" /\ session # 0)
          => /\ calls'[i].pc = "engineStop" /\ calls'[i].eng = session
             /\ ~calls'[i].all /\ calls'[i].name = DEFAULT
             /\ Count(engines'[session].log, "stop") = Count(engines[session].log, "stop") + 1
             /\ session' = session /\ storage' = storage
       /\ (i \in DOMAIN calls /\ IsShutdown(i) /\ Settles(i, "engineStop", "resolved"))
          => calls'[i].pc = "resolved" /\ session' = 0 /\ storage' = storage]_vars

\* C14's case: the hook has stopped the active session and the credentials are
\* still stored.
C14_Witness ==
  \E i \in DOMAIN calls :
    /\ IsShutdown(i) /\ calls[i].pc = "resolved" /\ calls[i].outs = <<"resolved">>
    /\ session = 0 /\ storage.creds /\ storage.clean = 0

Active == {"STARTING", "RUNNING", "STOPPING"}

IsStart(i) == calls[i].op = "start"

\* C16: an engine is constructed only in the step where a start()'s init(name)
\* has resolved; when init(name) rejects, start() rejects with that failure, no
\* engine is constructed, configured or started, and the session reference is
\* the one it was.
C16_InitBeforeEngine ==
  [][/\ \A i \in DOMAIN calls :
          /\ (IsStart(i) /\ Settles(i, "init", "rejected")) =>
               /\ calls'[i].pc = "rejected" /\ calls'[i].err = Failure("init", 0)
               /\ calls'[i].eng = 0
               /\ engines' = engines /\ session' = session
          /\ (IsStart(i) /\ Settles(i, "init", "resolved")) =>
               /\ Len(engines') = Len(engines) + 1
               /\ Head(engines'[Len(engines')].log) = "new"
               /\ session' = Len(engines') /\ calls'[i].eng = session'
     /\ Len(engines') # Len(engines) =>
          \E i \in DOMAIN calls : IsStart(i) /\ Settles(i, "init", "resolved")
     /\ \A i \in DOMAIN calls' :
          (IsNew(i) /\ calls'[i].op = "start") =>
            engines' = engines /\ session' = session /\ calls'[i].eng = 0]_vars

\* C16's case: init(name) rejected for a start() called while a session was
\* held: the start() rejected and the held session is still the only engine.
C16_Witness ==
  \E i, j \in DOMAIN calls :
    /\ IsStart(i) /\ calls[i].pc = "rejected" /\ calls[i].outs = <<"rejected">>
    /\ calls[i].err = Failure("init", 0) /\ calls[i].eng = 0
    /\ IsStart(j) /\ j < i /\ calls[j].pc = "resolved" /\ j \in calls[i].seen
    /\ session = calls[j].eng /\ Len(engines) = 1

\* No promise the call i awaited has rejected.
NoFault(i) == \A k \in DOMAIN calls[i].outs : calls[i].outs[k] = "resolved"
\* The engine e has had start() invoked and stop() not invoked.
Started(e) == Count(engines[e].log, "start") > 0 /\ Count(engines[e].log, "stop") = 0

\* C17: at most one engine instance has had start() invoked without stop()
\* invoked on it, and that instance is the one the manager holds.
\* (Stated for the calls of a caller that awaits each call before the next, in
\* runs where no collaborator's promise rejected.)
C17_OneStartedEngineHeld ==
  (\A i \in DOMAIN calls : Serial(i) /\ NoFault(i)) =>
    /\ Cardinality({e \in DOMAIN engines : Started(e)}) <= 1
    /\ \A e \in DOMAIN engines : Started(e) => session = e

\* C18: a getSessions(all) called with a session active never fails, though a
\* stop clears the session reference while it is suspended on
\* getSessionMeInfo() or getEngineInfo(): it resolves with a list.
\* (Stated for the runs where no collaborator's promise rejected.)
C18_GetSessionsNeverFails ==
  \A i \in DOMAIN calls :
    (calls[i].op = "getSessions" /\ \A k \in DOMAIN calls : NoFault(k)) =>
      /\ calls[i].pc # "rejected"
      /\ calls[i].pc = "resolved" => calls[i].ret.kind = "list"

InitResolved(i) == IsStart(i) /\ calls[i].outs # <<>> /\ calls[i].outs[1] = "resolved"

\* C19: stop() never removes the stored credentials, whatever its logout flag:
\* neither calling it nor the settling of the engine's stop() changes the auth
\* storage, clean is called only by logout, credentials are removed only when
\* a logout's clean resolves, and in a run of start and stop calls alone the
\* credentials a start initialised are still there.
C19_StopKeepsCredentials ==
  /\ []((\E i \in DOMAIN calls : InitResolved(i)) /\ (\A i \in DOMAIN calls : ~IsLogout(i))
        => storage.creds /\ storage.clean = 0)
  /\ [][/\ \A i \in DOMAIN calls' :
            (IsNew(i) /\ calls'[i].op \in {"stop", "shutdown"}) => storage' = storage
        /\ \A i \in DOMAIN calls :
            (calls[i].pc = "engineStop" /\ calls'[i].pc # "engineStop") => storage' = storage
        /\ storage'.clean # storage.clean =>
             \E i \in DOMAIN calls' : IsNew(i) /\ calls'[i].op = "logout"
        /\ (storage.creds /\ ~storage'.creds) =>
             \E i \in DOMAIN calls : IsLogout(i) /\ Settles(i, "clean", "resolved")]_vars

\* C19's case: a stop with logout=true has stopped the session a start had
\* initialised, and the credentials are still stored.
C19_Witness ==
  \E i, j \in DOMAIN calls :
    /\ InitResolved(i)
    /\ IsStop(j) /\ calls[j].all /\ ~calls[j].detached /\ calls[j].eng = calls[i].eng
    /\ calls[j].pc = "resolved" /\ session = 0
    /\ storage.creds /\ storage.clean = 0

====
